---------------------------- MODULE Spec2Model ----------------------------
(***************************************************************************)
(* A model of littlealbert, a behavior-tree engine: the Result values, the *)
(* leaf and composite nodes' Tick methods, the worker pool of Parallel and *)
(* the Run loop.                                                           *)
(*                                                                         *)
(* Six specifications share the module's variables:                        *)
(*   SpecTree    one Sequence or Fallback over stateful Task leaves,       *)
(*               ticked repeatedly (a whole Tick is one action);           *)
(*   SpecNodes   the derived decorators, Ternary and Dynamic, likewise;    *)
(*   SpecPar     one Tick of the concurrent Parallel, one step per         *)
(*               goroutine step;                                           *)
(*   SpecRun     the Run loop with the outer context's cancellation and    *)
(*               the ticker of the cadence wait as the environment;        *)
(*   SpecRunFair the same under fair scheduling;                           *)
(*   SpecRunPar  the Run loop over a Parallel root, each root tick being   *)
(*               one concurrent parallel.Tick.                             *)
(***************************************************************************)
EXTENDS Integers, Sequences, FiniteSets, TLC

VARIABLES
    \* ---- SpecTree
    tree,       \* the node under test
    calls,      \* calls[i]: how often leaf i's function has been called so far
    last,       \* what the latest Tick of the tree did
    nticks,     \* Ticks of the tree so far
    \* ---- SpecPar
    pnode,      \* the parallel node: its children and its thresh
    ppc,        \* where parallel.Tick is
    spawned,    \* worker goroutines started so far
    exited,     \* worker goroutines that have run wg.Done
    cstate,     \* cstate[i]: child i is in the channel, being ticked, or tallied
    cticks,     \* cticks[i]: Tick calls child i has received in this parallel.Tick
    successes,  \* the tally written by atomic.AddUint64(&successes, 1)
    failures,   \* the tally written by atomic.AddUint64(&failures, 1)
    pres,       \* what parallel.Tick returned, and the tallies it read
    inflight,   \* inflight[x]: Tick calls of node instance x that have not returned
    \* ---- SpecRun
    rroot,      \* the root node Run ticks
    rcounter,   \* the root's own state (MaxTick.counter, a tree's call counts)
    runKind,    \* which Run: configured by options, or taking its rates as arguments
    tickRate,   \* the tick cadence, in seconds
    tickTimeout,\* the per-tick timeout, in seconds
    tickCtx,    \* the context of the latest root tick
    rpc,        \* where Run is
    hist,       \* the results of the root ticks that have returned, in order
    started,    \* root ticks started so far
    cancelled,  \* whether the outer context is done
    fired,      \* whether the ticker of the current cadence wait has fired
    ret         \* what Run returned

treeVars == <<tree, calls, last, nticks>>
parVars == <<pnode, ppc, spawned, exited, cstate, cticks, successes, failures, pres, inflight>>
runVars == <<rroot, rcounter, runKind, tickRate, tickTimeout, tickCtx, rpc, hist, started,
             cancelled, fired, ret>>
vars == <<treeVars, parVars, runVars>>

-----------------------------------------------------------------------------
(* Result *)

Invalid == 0
Running == 1
Success == 2
Failure == 3
Result == {Invalid, Running, Success, Failure}

Min(a, b) == IF a <= b THEN a ELSE b


-----------------------------------------------------------------------------
(* Nodes.  A node is a record; a Task leaf carries the results its function *)
(* returns on its first, second, ... call (the last one for ever after),    *)
(* which is how the stateful closures of the tests behave.                  *)

MaxChildren == 3
MaxTicks == 3

Task(i, s) == [kind |-> "task", id |-> i, script |-> s, children |-> <<>>]
Sequence(cs) == [kind |-> "sequence", id |-> 0, script |-> <<>>, children |-> cs]
Fallback(cs) == [kind |-> "fallback", id |-> 0, script |-> <<>>, children |-> cs]

\* The function of a Task leaf on its k-th call.
ScriptAt(s, k) == s[Min(k, Len(s))]

\* The closure of Test_Running_Sequence: Running once, Success afterwards.
OnceRunning == <<Running, Success>>

\* The leaf functions the model ticks: the constant ones, and two stateful ones.
Scripts == {<<r>> : r \in Result} \cup {OnceRunning, <<Success, Failure>>}

\* The six children of Test_Running_Sequence.
TestRunningSequence ==
    Sequence(<<Task(1, <<Success>>), Task(2, <<Success>>), Task(3, <<Success>>),
               Task(4, OnceRunning), Task(5, <<Success>>), Task(6, <<Success>>)>>)

RECURSIVE TickNode(_, _)
RECURSIVE SequenceLoop(_, _, _, _)
RECURSIVE FallbackLoop(_, _, _, _)
RECURSIVE ParallelTick(_, _)

\* task.Tick: the function's result, verbatim.
TaskTick(n, c) ==
    [res   |-> ScriptAt(n.script, c[n.id] + 1),
     calls |-> [c EXCEPT ![n.id] = @ + 1],
     trace |-> <<n.id>>]

\* The loop of sequence.Tick from child i on: c the leaves' call counts, tr the
\* leaves ticked so far in this Tick.
SequenceLoop(children, i, c, tr) ==
    IF i > Len(children)
    THEN [res |-> Success, calls |-> c, trace |-> tr]
    ELSE LET r == TickNode(children[i], c)
         IN  IF r.res # Success
             THEN [res |-> r.res, calls |-> r.calls, trace |-> tr \o r.trace]
             ELSE SequenceLoop(children, i + 1, r.calls, tr \o r.trace)

\* A Sequence that returns only on Failure and runs on over a Running child.
SequenceTickOverRunning(n, c) ==
    LET RECURSIVE Loop(_, _, _)
        Loop(i, cc, tr) ==
            IF i > Len(n.children)
            THEN [res |-> Success, calls |-> cc, trace |-> tr]
            ELSE LET r == TickNode(n.children[i], cc)
                 IN  IF r.res = Failure
                     THEN [res |-> r.res, calls |-> r.calls, trace |-> tr \o r.trace]
                     ELSE Loop(i + 1, r.calls, tr \o r.trace)
    IN  Loop(1, c, <<>>)

\* A Sequence that remembers where a Running tick stopped and resumes there.
SequenceTickResuming(n, c) ==
    SequenceLoop(n.children,
                 IF last.res = Running /\ last.trace # <<>>
                 THEN last.trace[Len(last.trace)] ELSE 1,
                 c, <<>>)

SequenceTick(n, c) == SequenceLoop(n.children, 1, c, <<>>)

\* The loop of fallback.Tick from child i on.
FallbackLoop(children, i, c, tr) ==
    IF i > Len(children)
    THEN [res |-> Failure, calls |-> c, trace |-> tr]
    ELSE LET r == TickNode(children[i], c)
         IN  IF r.res = Success \/ r.res = Running
             THEN [res |-> r.res, calls |-> r.calls, trace |-> tr \o r.trace]
             ELSE FallbackLoop(children, i + 1, r.calls, tr \o r.trace)

\* A Fallback that returns on Success only.
FallbackTickSuccessOnly(n, c) ==
    LET RECURSIVE Loop(_, _, _)
        Loop(i, cc, tr) ==
            IF i > Len(n.children)
            THEN [res |-> Failure, calls |-> cc, trace |-> tr]
            ELSE LET r == TickNode(n.children[i], cc)
                 IN  IF r.res = Success
                     THEN [res |-> r.res, calls |-> r.calls, trace |-> tr \o r.trace]
                     ELSE Loop(i + 1, r.calls, tr \o r.trace)
    IN  Loop(1, c, <<>>)

FallbackTick(n, c) == FallbackLoop(n.children, 1, c, <<>>)

\* Conditional(name, cond): the leaf carries what cond returns on its first,
\* second, ... call.
Conditional(i, s) == [kind |-> "conditional", id |-> i, script |-> s, children |-> <<>>]

\* conditional.Tick: Success if cond holds, Failure otherwise.
ConditionalTick(n, c) ==
    [res   |-> IF ScriptAt(n.script, c[n.id] + 1) THEN Success ELSE Failure,
     calls |-> [c EXCEPT ![n.id] = @ + 1],
     trace |-> <<n.id>>]

\* Decorator(name, child, modifier): fn names the modifier, "nil" for none.
Decorator(fn, child) ==
    [kind |-> "decorator", id |-> 0, script |-> <<>>, children |-> <<child>>, fn |-> fn]

Label(node) == Decorator("nil", node)
RunUntilSuccess(node) == Decorator("RunUntilSuccess", node)
RunUntilFailure(node) == Decorator("RunUntilFailure", node)
Invert(node) == Decorator("Invert", node)

\* The modifier functions of RunUntilSuccess, RunUntilFailure and Invert.
Modifier(fn, result) ==
    CASE fn = "RunUntilSuccess" -> IF result = Success THEN Success ELSE Running
      [] fn = "RunUntilFailure" -> IF result = Failure THEN Failure ELSE Running
      [] fn = "Invert" -> CASE result = Success -> Failure
                            [] result = Failure -> Success
                            [] OTHER -> result

Modifiers == {"nil", "RunUntilSuccess", "RunUntilFailure", "Invert"}

\* A Decorator that returns its child's result whatever its modifier.
DecoratorTickUnmodified(n, c) == TickNode(n.children[1], c)

\* decorator.Tick: the child's result, through the modifier if there is one.
DecoratorTick(n, c) ==
    LET r == TickNode(n.children[1], c)
    IN  [res   |-> IF n.fn # "nil" THEN Modifier(n.fn, r.res) ELSE r.res,
         calls |-> r.calls,
         trace |-> r.trace]

\* Ternary(predicate, whenTrue, whenFalse)
Ternary(predicate, whenTrue, whenFalse) ==
    Fallback(<<Sequence(<<predicate, whenTrue>>), whenFalse>>)

\* Dynamic(name, cons): the node carries the subtrees cons returns on its
\* first, second, ... call; calls[i] counts the calls of cons.
Dynamic(i, cons) ==
    [kind |-> "dynamic", id |-> i, script |-> <<>>, children |-> <<>>, cons |-> cons]

\* A Dynamic that keeps the subtree of its first Tick.
DynamicTickMemoised(n, c) ==
    LET r == TickNode(n.cons[1], [c EXCEPT ![n.id] = IF @ = 0 THEN 1 ELSE @])
    IN  [res   |-> r.res,
         calls |-> r.calls,
         trace |-> (IF c[n.id] = 0 THEN <<n.id>> ELSE <<>>) \o r.trace]

\* dynamic.Tick: d.construct(ctx).Tick(ctx).
DynamicTick(n, c) ==
    LET built == ScriptAt(n.cons, c[n.id] + 1)
        r == TickNode(built, [c EXCEPT ![n.id] = @ + 1])
    IN  [res   |-> r.res,
         calls |-> r.calls,
         trace |-> <<n.id>> \o r.trace]

TickNode(n, c) ==
    CASE n.kind = "task"        -> TaskTick(n, c)
      [] n.kind = "conditional" -> ConditionalTick(n, c)
      [] n.kind = "sequence"    -> SequenceTick(n, c)
      [] n.kind = "fallback"    -> FallbackTick(n, c)
      [] n.kind = "decorator"   -> DecoratorTick(n, c)
      [] n.kind = "dynamic"     -> DynamicTick(n, c)
      [] n.kind = "parallel"    -> ParallelTick(n, c)

\* The child lists: up to MaxChildren Task leaves, leaf i at place i.
ChildLists ==
    UNION {{[i \in 1..n |-> Task(i, f[i])] : f \in [1..n -> Scripts]} : n \in 0..MaxChildren}

Trees ==
    {Sequence(cs) : cs \in ChildLists} \cup {Fallback(cs) : cs \in ChildLists}
        \cup {TestRunningSequence}

NoTick(c) == [res |-> Invalid, trace |-> <<>>, before |-> c]

InitTreeVars ==
    /\ tree \in Trees
    /\ calls = [i \in 1..Len(tree.children) |-> 0]
    /\ last = NoTick(calls)
    /\ nticks = 0

IdleTreeVars ==
    /\ tree = Sequence(<<>>)
    /\ calls = <<>>
    /\ last = NoTick(calls)
    /\ nticks = 0

\* One Tick of the tree, as the tests call it.
TickTree ==
    /\ nticks < MaxTicks
    /\ LET r == TickNode(tree, calls)
       IN  /\ calls' = r.calls
           /\ last' = [res |-> r.res, trace |-> r.trace, before |-> calls]
    /\ nticks' = nticks + 1
    /\ UNCHANGED tree
    /\ UNCHANGED <<parVars, runVars>>

\* The greatest id of a leaf or constructor in the tree under n.
RECURSIVE MaxId(_)
MaxId(n) ==
    LET subs == IF n.kind = "dynamic" THEN n.cons ELSE n.children
        own  == IF n.kind = "parallel" THEN 0 ELSE n.id
        ids  == {own} \cup {MaxId(subs[i]) : i \in 1..Len(subs)}
    IN  CHOOSE m \in ids : \A k \in ids : k <= m

\* Each derived decorator over one leaf, and Invert over Invert.
DecoratedTrees ==
    {Decorator(fn, Task(1, s)) : fn \in Modifiers, s \in Scripts}
        \cup {Invert(Invert(Task(1, s))) : s \in Scripts}

\* Predicates of a Ternary: a Conditional, or any node.
Predicates ==
    {Conditional(1, <<b>>) : b \in BOOLEAN} \cup {Task(1, <<r>>) : r \in Result}

TernaryTrees ==
    {Ternary(p, Task(2, <<t>>), Task(3, <<f>>)) : p \in Predicates, t \in Result, f \in Result}

\* Constructors that return the same subtree at every call, and constructors
\* that return one subtree at the first call and another from the second on.
DynamicTrees ==
    {Dynamic(1, <<Task(2, s)>>) : s \in Scripts}
        \cup {Dynamic(1, <<Task(2, <<a>>), Task(3, <<b>>)>>) : a \in Result, b \in Result}

NestedTrees == DecoratedTrees \cup TernaryTrees \cup DynamicTrees

InitNodeVars ==
    /\ tree \in NestedTrees
    /\ calls = [i \in 1..MaxId(tree) |-> 0]
    /\ last = NoTick(calls)
    /\ nticks = 0

-----------------------------------------------------------------------------
(* uint64.  A value is its four 16-bit limbs, most significant first, so    *)
(* that arithmetic modulo 2^64 is exact.                                    *)

Limb == 2^16

\* uint64(x) of a Go int x (two's complement), for -Limb <= x < Limb.
ToUint64(x) ==
    IF x >= 0 THEN <<0, 0, 0, x>> ELSE <<Limb - 1, Limb - 1, Limb - 1, Limb + x>>

\* a - b modulo 2^64: limb by limb from the least significant, with borrow.
Uint64Sub(a, b) ==
    LET d4 == a[4] - b[4]
        b4 == IF d4 < 0 THEN 1 ELSE 0
        d3 == a[3] - b[3] - b4
        b3 == IF d3 < 0 THEN 1 ELSE 0
        d2 == a[2] - b[2] - b3
        b2 == IF d2 < 0 THEN 1 ELSE 0
        d1 == a[1] - b[1] - b2
    IN  <<d1 % Limb, d2 % Limb, d3 % Limb, d4 % Limb>>

\* a + 1 modulo 2^64.
Uint64Inc(a) == Uint64Sub(a, <<Limb - 1, Limb - 1, Limb - 1, Limb - 1>>)

\* a >= b, unsigned.
Uint64Ge(a, b) ==
    \/ a = b
    \/ \E k \in 1..4 : a[k] > b[k] /\ \A j \in 1..(k - 1) : a[j] = b[j]

-----------------------------------------------------------------------------
(* Parallel: one Tick of the concurrent parallel node.                      *)

maxNodeConcurrency == 10

\* Parallel(threshold, children...): threshold is kept beside thresh, the field.
Parallel(threshold, cs) ==
    [kind |-> "parallel", threshold |-> threshold, thresh |-> ToUint64(threshold),
     children |-> cs]

\* The result of child i's Tick: the children are Task leaves of a constant result.
ChildResult(i) == ScriptAt(pnode.children[i].script, 1)

NumChildren == Len(pnode.children)

\* The children a worker has received from the channel and not yet tallied.
InFlight == {i \in 1..NumChildren : cstate[i] = "ticking"}

\* A pool with as many workers as there are children.
IdleWorkersPerChild == NumChildren - exited - Cardinality(InFlight)

\* Workers blocked in, or about to enter, "for node := range children".
IdleWorkers == spawned - exited - Cardinality(InFlight)

\* A receive that takes any child not yet tallied, also one another worker holds.
ReceivableAgain(i) == cstate[i] \in {"queued", "ticking"}

\* Child i is at the head of the channel.
Receivable(i) ==
    /\ cstate[i] = "queued"
    /\ \A j \in 1..(i - 1) : cstate[j] # "queued"

\* A channel with one slot per worker.
ChannelPerWorker == Min(NumChildren, maxNodeConcurrency)

\* make(chan Node, len(p.children)): the slots of the channel.
ChannelCapacity == NumChildren

\* The channel is closed and drained: range ends.
ChannelDrained == \A i \in 1..NumChildren : cstate[i] # "queued"

\* A Wait that returns without waiting.
WaitReturnsAtOnce == TRUE

\* wg.Wait returns: every Add(1) has met its Done.
WaitReturns == exited = spawned

\* An aggregation that wants more successes than the threshold.
AggregateAboveThreshold(p, succ, fail) ==
    IF Uint64Ge(succ, p.thresh) /\ succ # p.thresh THEN Success
    ELSE IF Uint64Ge(fail, Uint64Sub(ToUint64(Len(p.children)), p.thresh)) THEN Failure
    ELSE Running

\* An aggregation that tests the failures before the successes.
AggregateFailureFirst(p, succ, fail) ==
    IF Uint64Ge(fail, Uint64Sub(ToUint64(Len(p.children)), p.thresh)) THEN Failure
    ELSE IF Uint64Ge(succ, p.thresh) THEN Success
    ELSE Running

\* An aggregation in signed arithmetic on the threshold as it was passed.
AggregateSigned(p, succ, fail) ==
    IF succ[4] >= p.threshold THEN Success
    ELSE IF fail[4] >= Len(p.children) - p.threshold THEN Failure
    ELSE Running

\* An aggregation that leaves its named result unset when neither bound is met.
AggregateNoVerdict(p, succ, fail) ==
    IF Uint64Ge(succ, p.thresh) THEN Success
    ELSE IF Uint64Ge(fail, Uint64Sub(ToUint64(Len(p.children)), p.thresh)) THEN Failure
    ELSE Invalid

\* The end of parallel.Tick: the result from the tallies.
Aggregate(p, succ, fail) ==
    IF Uint64Ge(succ, p.thresh) THEN Success
    ELSE IF Uint64Ge(fail, Uint64Sub(ToUint64(Len(p.children)), p.thresh)) THEN Failure
    ELSE Running

\* The tallies of a parallel.Tick whose workers have ticked the children from
\* place i on: each child is ticked once, whichever worker takes it.
RECURSIVE ParallelJoin(_, _, _, _, _, _)
ParallelJoin(p, i, c, tr, succ, fail) ==
    IF i > Len(p.children)
    THEN [res |-> Aggregate(p, succ, fail), calls |-> c, trace |-> tr]
    ELSE LET r == TickNode(p.children[i], c)
         IN  ParallelJoin(p, i + 1, r.calls, tr \o r.trace,
                          IF r.res = Success THEN Uint64Inc(succ) ELSE succ,
                          IF r.res = Failure THEN Uint64Inc(fail) ELSE fail)

\* parallel.Tick as one step of the tree that holds it.
ParallelTick(n, c) == ParallelJoin(n, 1, c, <<>>, ToUint64(0), ToUint64(0))

\* The loop of the sequential parallel.Tick from child i on, with the int
\* counters so far: the children are ticked one after another, in order.
RECURSIVE SequentialParallelLoop(_, _, _, _)
SequentialParallelLoop(p, i, succ, fail) ==
    IF i > Len(p.children)
    THEN IF succ >= p.threshold THEN Success
         ELSE IF fail >= Len(p.children) - p.threshold THEN Failure
         ELSE Running
    ELSE LET result == ScriptAt(p.children[i].script, 1)
         IN  SequentialParallelLoop(p, i + 1,
                                    IF result = Success THEN succ + 1 ELSE succ,
                                    IF result = Failure THEN fail + 1 ELSE fail)

\* The sequential parallel.Tick: thresh is the int threshold itself.
SequentialParallelTick(p) == SequentialParallelLoop(p, 1, 0, 0)

\* Children of constant result, up to MaxChildren of them.
ConstLists ==
    UNION {{[i \in 1..n |-> Task(i, <<f[i]>>)] : f \in [1..n -> Result]} : n \in 0..MaxChildren}

\* More children than workers.
ManyChildren == [i \in 1..(maxNodeConcurrency + 1) |-> Task(i, <<Success>>)]

\* The nodes ticked: every threshold from 0 to one more than the children (the
\* constructor takes any int), and one node with more children than workers.
ParallelNodes ==
    {p \in {Parallel(t, cs) : t \in 0..(MaxChildren + 1), cs \in ConstLists} :
        p.threshold <= Len(p.children) + 1}
        \cup {Parallel(maxNodeConcurrency, ManyChildren)}

NoResult == [res |-> Invalid, successes |-> ToUint64(0), failures |-> ToUint64(0)]

InitParVars ==
    /\ pnode \in ParallelNodes
    /\ ppc = "call"
    /\ spawned = 0
    /\ exited = 0
    /\ cstate = [i \in 1..NumChildren |-> "none"]
    /\ cticks = [i \in 1..NumChildren |-> 0]
    /\ successes = ToUint64(0)
    /\ failures = ToUint64(0)
    /\ pres = NoResult
    /\ inflight = [x \in 1..MaxId(pnode) |-> 0]

IdleParVars ==
    /\ pnode = Parallel(0, <<>>)
    /\ ppc = "call"
    /\ spawned = 0
    /\ exited = 0
    /\ cstate = <<>>
    /\ cticks = <<>>
    /\ successes = ToUint64(0)
    /\ failures = ToUint64(0)
    /\ pres = NoResult
    /\ inflight = <<>>

\* parallel.Tick up to close(children): the channel holds every child, in order.
ParFill ==
    /\ ppc = "call"
    /\ NumChildren <= ChannelCapacity
    /\ cstate' = [i \in 1..NumChildren |-> "queued"]
    /\ ppc' = "spawn"
    /\ UNCHANGED <<pnode, spawned, exited, cticks, successes, failures, pres, inflight>>
    /\ UNCHANGED <<treeVars, runVars>>

\* One round of the spawning loop: wg.Add(1); go func() {...}().
ParSpawn ==
    /\ ppc = "spawn"
    /\ spawned < maxNodeConcurrency
    /\ spawned' = spawned + 1
    /\ ppc' = IF spawned' = maxNodeConcurrency THEN "wait" ELSE "spawn"
    /\ UNCHANGED <<pnode, exited, cstate, cticks, successes, failures, pres, inflight>>
    /\ UNCHANGED <<treeVars, runVars>>

\* A worker receives child i from the channel and calls its Tick.
WorkerReceive(i) ==
    /\ IdleWorkers > 0
    /\ Receivable(i)
    /\ cstate' = [cstate EXCEPT ![i] = "ticking"]
    /\ cticks' = [cticks EXCEPT ![i] = @ + 1]
    /\ inflight' = [inflight EXCEPT ![pnode.children[i].id] = @ + 1]
    /\ UNCHANGED <<pnode, ppc, spawned, exited, successes, failures, pres>>
    /\ UNCHANGED <<treeVars, runVars>>

\* Workers that tally with a plain read-modify-write: an add made while
\* another child's Tick is in flight is overwritten, and lost.
WorkerTickReturnsUnsynchronised(i) ==
    /\ cstate[i] = "ticking"
    /\ cstate' = [cstate EXCEPT ![i] = "tallied"]
    /\ successes' = IF ChildResult(i) = Success /\ InFlight = {i}
                     THEN Uint64Inc(successes) ELSE successes
    /\ failures' = IF ChildResult(i) = Failure /\ InFlight = {i}
                    THEN Uint64Inc(failures) ELSE failures
    /\ inflight' = [inflight EXCEPT ![pnode.children[i].id] = @ - 1]
    /\ UNCHANGED <<pnode, ppc, spawned, exited, cticks, pres>>
    /\ UNCHANGED <<treeVars, runVars>>

\* Child i's Tick returns to its worker, whose switch on the result does one
\* atomic add, or none.
WorkerTickReturns(i) ==
    /\ cstate[i] = "ticking"
    /\ cstate' = [cstate EXCEPT ![i] = "tallied"]
    /\ successes' = IF ChildResult(i) = Success THEN Uint64Inc(successes) ELSE successes
    /\ failures' = IF ChildResult(i) = Failure THEN Uint64Inc(failures) ELSE failures
    /\ inflight' = [inflight EXCEPT ![pnode.children[i].id] = @ - 1]
    /\ UNCHANGED <<pnode, ppc, spawned, exited, cticks, pres>>
    /\ UNCHANGED <<treeVars, runVars>>

\* A worker finds the channel closed and drained, and runs wg.Done.
WorkerExit ==
    /\ IdleWorkers > 0
    /\ ppc # "call"
    /\ ChannelDrained
    /\ exited' = exited + 1
    /\ UNCHANGED <<pnode, ppc, spawned, cstate, cticks, successes, failures, pres, inflight>>
    /\ UNCHANGED <<treeVars, runVars>>

\* wg.Wait returns and parallel.Tick returns the aggregate of the tallies.
ParReturn ==
    /\ ppc = "wait"
    /\ WaitReturns
    /\ pres' = [res |-> Aggregate(pnode, successes, failures),
                successes |-> successes, failures |-> failures]
    /\ ppc' = "done"
    /\ UNCHANGED <<pnode, spawned, exited, cstate, cticks, successes, failures, inflight>>
    /\ UNCHANGED <<treeVars, runVars>>

-----------------------------------------------------------------------------
(* Run: the loop that ticks the root until it is no longer Running.         *)

MaxRootTicks == 3
MaxTickRate == 1
MaxTickTimeout == 1

defaultTickRate == 10
defaultTickTimeout == 1

\* The stateful root of the tests: Running max times, Success afterwards.
MaxTick(max) == [kind |-> "maxtick", max |-> max]

\* A root whose every Tick may return any Result.
AnyRoot == [kind |-> "any", max |-> 0]

\* The results a well-behaved leaf function returns.
ValidResults == {Running, Success, Failure}

\* The leaves with id i whose function returns only such results.
ValidLeaves(i) ==
    {Task(i, <<r>>) : r \in ValidResults} \cup {Conditional(i, <<b>>) : b \in BOOLEAN}

\* Trees of every kind of node over such leaves.
ValidRoots ==
    ValidLeaves(1)
        \cup {Sequence(<<>>), Fallback(<<>>), Parallel(0, <<>>), Parallel(1, <<>>)}
        \cup {Sequence(<<a, b>>) : a \in ValidLeaves(1), b \in ValidLeaves(2)}
        \cup {Fallback(<<a, b>>) : a \in ValidLeaves(1), b \in ValidLeaves(2)}
        \cup {Parallel(t, <<a, b>>) : t \in 0..3, a \in ValidLeaves(1), b \in ValidLeaves(2)}
        \cup {Decorator(fn, a) : fn \in Modifiers, a \in ValidLeaves(1)}
        \cup {Dynamic(3, <<a, b>>) : a \in ValidLeaves(1), b \in ValidLeaves(2)}

Roots == {MaxTick(n) : n \in 0..(MaxRootTicks - 1)} \cup {AnyRoot} \cup ValidRoots

\* The root's state before its first Tick.
RootState(root) ==
    IF root.kind \in {"maxtick", "any"} THEN 0 ELSE [i \in 1..MaxId(root) |-> 0]

\* What a Tick of the root may return with its counter at c.
RootResults(root, c) ==
    IF root.kind = "maxtick"
    THEN IF c >= root.max THEN {Success} ELSE {Running}
    ELSE IF root.kind = "any" THEN Result
    ELSE {TickNode(root, c).res}

\* The root's counter after that Tick.
RootCounter(root, c) ==
    IF root.kind = "maxtick" THEN IF c < root.max THEN c + 1 ELSE c
    ELSE IF root.kind = "any" THEN c
    ELSE TickNode(root, c).calls

\* A loop that goes on ticking after a Failure.
EndsLoopOnSuccessOnly(result) == result = Success

\* "if result != Running { return result }"
EndsLoop(result) == result # Running

\* time.Tick(d) is a ticker's channel for d > 0 and the nil channel otherwise.
TickerChannel(d) == d > 0

\* The duration Run hands to context.WithTimeout: config.tickTimeout in the Run
\* configured by options, tickRate in the Run that takes both as arguments.
TickContextTimeout ==
    IF runKind = "options" THEN tickTimeout ELSE tickRate

\* No tick context yet.
NoContext == [parent |-> "none", timeout |-> 0, released |-> TRUE]

\* The Run configured by options has the defaults (no option sets them); the
\* Run taking tickRate and tickTimeout has what its caller passes.
InitRunConfig ==
    /\ runKind \in {"options", "arguments"}
    /\ IF runKind = "options"
       THEN tickRate = defaultTickRate /\ tickTimeout = defaultTickTimeout
       ELSE tickRate \in 0..MaxTickRate /\ tickTimeout \in 0..MaxTickTimeout

InitRunLoop ==
    /\ tickCtx = NoContext
    /\ rpc = "loop"
    /\ hist = <<>>
    /\ started = 0
    /\ cancelled = FALSE
    /\ fired = FALSE
    /\ ret = Invalid

InitRunVars ==
    /\ rroot \in Roots
    /\ rcounter = RootState(rroot)
    /\ InitRunConfig
    /\ InitRunLoop

IdleRunVars ==
    /\ rroot = AnyRoot
    /\ rcounter = 0
    /\ runKind = "arguments"
    /\ tickRate = 0
    /\ tickTimeout = 0
    /\ InitRunLoop

\* A loop that looks at the outer context before it ticks.
TickStartUnlessCancelled ==
    /\ rpc = "loop"
    /\ ~cancelled
    /\ started < MaxRootTicks
    /\ started' = started + 1
    /\ tickCtx' = [parent |-> "ctx", timeout |-> TickContextTimeout, released |-> FALSE]
    /\ rpc' = "tick"
    /\ UNCHANGED <<rroot, runKind, tickRate, tickTimeout, hist, cancelled, fired, ret>>

\* The top of the loop: the tick's context is derived from ctx and tree.Tick is
\* called with it.
TickStart ==
    /\ rpc = "loop"
    /\ started < MaxRootTicks
    /\ started' = started + 1
    /\ tickCtx' = [parent |-> "ctx", timeout |-> TickContextTimeout, released |-> FALSE]
    /\ rpc' = "tick"
    /\ UNCHANGED <<rroot, runKind, tickRate, tickTimeout, hist, cancelled, fired, ret>>

\* tree.Tick has returned result: cancel() releases the tick's context, then Run
\* returns a result that ends the loop, and otherwise reaches the select, whose
\* time.Tick makes a new ticker.
TickReturns(result) ==
    /\ rpc = "tick"
    /\ tickCtx' = [tickCtx EXCEPT !.released = TRUE]
    /\ hist' = Append(hist, result)
    /\ IF EndsLoop(result)
       THEN ret' = result /\ rpc' = "done"
       ELSE ret' = ret /\ rpc' = "select"
    /\ fired' = FALSE
    /\ UNCHANGED <<rroot, runKind, tickRate, tickTimeout, started, cancelled>>

RunTickStart ==
    /\ TickStart
    /\ UNCHANGED rcounter
    /\ UNCHANGED <<treeVars, parVars>>

RunTickReturns ==
    /\ \E result \in RootResults(rroot, rcounter) : TickReturns(result)
    /\ rcounter' = RootCounter(rroot, rcounter)
    /\ UNCHANGED <<treeVars, parVars>>

\* The ticker of the select sends on its channel: before the select has looked
\* at its cases, or while it is blocked with neither of them ready.
TickerFires ==
    /\ rpc = "select" \/ (rpc = "blocked" /\ ~cancelled)
    /\ TickerChannel(tickRate)
    /\ ~fired
    /\ fired' = TRUE
    /\ UNCHANGED <<rroot, rcounter, runKind, tickRate, tickTimeout, tickCtx, rpc, hist,
                   started, cancelled, ret>>
    /\ UNCHANGED <<treeVars, parVars>>

\* The select finds neither case ready, and blocks.
SelectBlocks ==
    /\ rpc = "select"
    /\ ~cancelled
    /\ ~fired
    /\ rpc' = "blocked"
    /\ UNCHANGED <<rroot, rcounter, runKind, tickRate, tickTimeout, tickCtx, hist, started,
                   cancelled, fired, ret>>
    /\ UNCHANGED <<treeVars, parVars>>

\* The select takes "case <-ctx.Done()": it finds the case ready (and, with
\* both ready, chooses it), or is woken from blocking by the cancellation.
SelectDone ==
    /\ rpc = "select" \/ (rpc = "blocked" /\ ~fired)
    /\ cancelled
    /\ ret' = Failure
    /\ rpc' = "done"
    /\ UNCHANGED <<rroot, rcounter, runKind, tickRate, tickTimeout, tickCtx, hist, started,
                   cancelled, fired>>
    /\ UNCHANGED <<treeVars, parVars>>

\* The select takes "case <-time.Tick(...)": it finds the case ready (and, with
\* both ready, chooses it), or is woken from blocking by the ticker: continue.
SelectTick ==
    /\ rpc \in {"select", "blocked"}
    /\ fired
    /\ rpc' = "loop"
    /\ UNCHANGED <<rroot, rcounter, runKind, tickRate, tickTimeout, tickCtx, hist, started,
                   cancelled, fired, ret>>
    /\ UNCHANGED <<treeVars, parVars>>

\* The caller cancels the outer context, or its deadline passes.
Cancel ==
    /\ rpc # "done"
    /\ ~cancelled
    /\ cancelled' = TRUE
    /\ UNCHANGED <<rroot, rcounter, runKind, tickRate, tickTimeout, tickCtx, rpc, hist,
                   started, fired, ret>>
    /\ UNCHANGED <<treeVars, parVars>>

-----------------------------------------------------------------------------
(* Run over a Parallel root: each root tick is one concurrent parallel.Tick. *)

\* A Parallel that holds the same leaf instance twice.
SharedChild ==
    LET x == Task(1, <<Running>>)
    IN  Parallel(1, <<x, x>>)

RunParRoots ==
    {Parallel(t, <<Task(1, <<a>>), Task(2, <<b>>)>>) :
        t \in 1..2, a \in ValidResults, b \in ValidResults} \cup {SharedChild}

InitRunParVars ==
    /\ pnode \in RunParRoots
    /\ ppc = "idle"
    /\ spawned = 0
    /\ exited = 0
    /\ cstate = [i \in 1..NumChildren |-> "none"]
    /\ cticks = [i \in 1..NumChildren |-> 0]
    /\ successes = ToUint64(0)
    /\ failures = ToUint64(0)
    /\ pres = NoResult
    /\ inflight = [x \in 1..MaxId(pnode) |-> 0]
    /\ rroot = pnode
    /\ rcounter = RootState(rroot)
    /\ InitRunConfig
    /\ InitRunLoop

\* The top of the loop, with the call of parallel.Tick: fresh tallies and a
\* fresh channel and WaitGroup.
RunParTickStart ==
    /\ TickStart
    /\ ppc' = "call"
    /\ spawned' = 0
    /\ exited' = 0
    /\ cstate' = [i \in 1..NumChildren |-> "none"]
    /\ cticks' = [i \in 1..NumChildren |-> 0]
    /\ successes' = ToUint64(0)
    /\ failures' = ToUint64(0)
    /\ pres' = NoResult
    /\ UNCHANGED <<pnode, inflight, rcounter>>
    /\ UNCHANGED treeVars

\* A root tick that Run stops waiting for once the workers are all started.
ParTickAbandoned == ppc \in {"wait", "done"}

\* tree.Tick(tickCtx) returns to Run when parallel.Tick has returned.
ParTickReturned == ppc = "done"

RunParTickReturns ==
    /\ ParTickReturned
    /\ TickReturns(pres.res)
    /\ UNCHANGED rcounter
    /\ UNCHANGED <<treeVars, parVars>>

-----------------------------------------------------------------------------
(* The specifications *)

InitTree == InitTreeVars /\ IdleParVars /\ IdleRunVars
NextTree == TickTree
SpecTree == InitTree /\ [][NextTree]_vars

InitNodes == InitNodeVars /\ IdleParVars /\ IdleRunVars
SpecNodes == InitNodes /\ [][NextTree]_vars

InitPar == IdleTreeVars /\ InitParVars /\ IdleRunVars
NextPar ==
    \/ ParFill
    \/ ParSpawn
    \/ \E i \in 1..NumChildren : WorkerReceive(i)
    \/ \E i \in 1..NumChildren : WorkerTickReturns(i)
    \/ WorkerExit
    \/ ParReturn
SpecPar == InitPar /\ [][NextPar]_vars

InitRunPar == IdleTreeVars /\ InitRunParVars
NextRunPar ==
    \/ RunParTickStart
    \/ ParFill
    \/ ParSpawn
    \/ \E i \in 1..NumChildren : WorkerReceive(i)
    \/ \E i \in 1..NumChildren : WorkerTickReturns(i)
    \/ WorkerExit
    \/ ParReturn
    \/ RunParTickReturns
    \/ TickerFires
    \/ SelectBlocks
    \/ SelectDone
    \/ SelectTick
    \/ Cancel
SpecRunPar == InitRunPar /\ [][NextRunPar]_vars

\* The steps of Run itself and of the ticker it started.
RunStep ==
    RunTickStart \/ RunTickReturns \/ TickerFires \/ SelectBlocks \/ SelectDone \/ SelectTick

InitRun == IdleTreeVars /\ IdleParVars /\ InitRunVars
NextRun == RunStep \/ Cancel
SpecRun == InitRun /\ [][NextRun]_vars

\* Run under the scheduling Go gives it: the goroutine of Run and the ticker
\* keep taking their steps, and a select that finds ctx.Done() ready again and
\* again takes that case in the end.  The caller need never cancel.
SpecRunFair == SpecRun /\ WF_vars(RunStep) /\ SF_vars(SelectDone)

-----------------------------------------------------------------------------
(* Properties of Sequence and Fallback (SpecTree) *)

\* The result child i returned, or would have returned, in the latest Tick.
ResultInLastTick(i) == ScriptAt(tree.children[i].script, last.before[i] + 1)

\* The places 1..k, in order.
UpTo(k) == [i \in 1..k |-> i]

Least(S) == CHOOSE k \in S : \A j \in S : k <= j

\* C1: a Sequence ticks its children in declared order up to and including the
\* first one whose result is not Success, returns that result and ticks none
\* after it; it returns Success when all returned Success, also with no children.
C1_SequenceShortCircuits ==
    (nticks > 0 /\ tree.kind = "sequence") =>
        LET n == Len(tree.children)
            stop == {i \in 1..n : ResultInLastTick(i) # Success}
        IN  IF stop = {}
            THEN last.res = Success /\ last.trace = UpTo(n)
            ELSE /\ last.res = ResultInLastTick(Least(stop))
                 /\ last.trace = UpTo(Least(stop))

C1_Witness ==
    /\ nticks > 0
    /\ tree.kind = "sequence"
    /\ Len(tree.children) = 3
    /\ last.res = Running
    /\ last.trace = <<1, 2>>

\* The calls of the test's shared "success" closure in a Tick: its touch counter.
Touch(trace) == Cardinality({j \in 1..Len(trace) : trace[j] # 4})

\* C2: a Sequence keeps no memory between ticks.  The Tick after one that
\* stopped with Running at child k starts at child 1 again and ticks the
\* children in order, stopping before child k only at a child that did not
\* return Success this time; and Test_Running_Sequence returns Running with
\* touch 3, then Success with touch 5.
C2_SequenceKeepsNoMemory ==
    /\ [](tree = TestRunningSequence =>
            /\ nticks = 1 => last.res = Running /\ last.trace = UpTo(4)
                                /\ Touch(last.trace) = 3
            /\ nticks = 2 => last.res = Success /\ last.trace = UpTo(6)
                                /\ Touch(last.trace) = 5)
    /\ [][(tree.kind = "sequence" /\ last.res = Running /\ nticks' = nticks + 1) =>
            LET k == Len(last.trace)
                m == Len(last'.trace)
            IN  /\ m >= 1
                /\ last'.trace = UpTo(m)
                /\ m < k => last'.res # Success]_vars

C2_Witness ==
    /\ tree = TestRunningSequence
    /\ nticks = 2
    /\ last.res = Success
    /\ calls[4] = 2

\* C3: a Fallback ticks its children in declared order up to and including the
\* first one that returns Success or Running, returns that result and ticks none
\* after it; it returns Failure when none did, also with no children.
C3_FallbackShortCircuits ==
    (nticks > 0 /\ tree.kind = "fallback") =>
        LET n == Len(tree.children)
            stop == {i \in 1..n : ResultInLastTick(i) \in {Success, Running}}
        IN  IF stop = {}
            THEN last.res = Failure /\ last.trace = UpTo(n)
            ELSE /\ last.res = ResultInLastTick(Least(stop))
                 /\ last.trace = UpTo(Least(stop))

C3_Witness ==
    /\ nticks > 0
    /\ tree.kind = "fallback"
    /\ Len(tree.children) = 3
    /\ ResultInLastTick(1) = Failure
    /\ last.res = Running
    /\ last.trace = <<1, 2>>

\* C15: a Fallback returns Failure only if every one of its children returned
\* Failure in that Tick, whichever of the four Result values the children return.
C15_FallbackFailsOnlyOnFailures ==
    (nticks > 0 /\ tree.kind = "fallback" /\ last.res = Failure) =>
        /\ last.trace = UpTo(Len(tree.children))
        /\ \A i \in 1..Len(tree.children) : ResultInLastTick(i) = Failure

-----------------------------------------------------------------------------
(* Properties of the decorators, Ternary and Dynamic (SpecNodes) *)

\* The leaves ticked in the latest Tick.
Ticked(i) == \E j \in 1..Len(last.trace) : last.trace[j] = i

\* What node n returned, or would have returned, in the latest Tick.
LastResultOf(n) == TickNode(n, last.before).res

\* C12: each derived decorator ticks its child exactly once per Tick and maps
\* the child's result by a fixed table: Label leaves it unchanged; Invert swaps
\* Success and Failure and leaves Running; RunUntilSuccess keeps Success and
\* maps everything else to Running; RunUntilFailure keeps Failure and maps
\* everything else to Running.  So RunUntilSuccess never returns Failure,
\* RunUntilFailure never returns Success, and Invert(Invert(x)) returns what x does.
C12_DecoratorTables ==
    (nticks > 0 /\ tree.kind = "decorator") =>
        LET child == tree.children[1]
            twice == child.kind = "decorator"
            leaf  == IF twice THEN child.children[1] ELSE child
            x     == ScriptAt(leaf.script, last.before[leaf.id] + 1)
        IN  /\ last.trace = <<leaf.id>>
            /\ calls[leaf.id] = last.before[leaf.id] + 1
            /\ twice => last.res = x
            /\ (~twice /\ tree.fn = "nil") => last.res = x
            /\ (~twice /\ tree.fn = "Invert") =>
                    /\ x = Success => last.res = Failure
                    /\ x = Failure => last.res = Success
                    /\ x = Running => last.res = Running
            /\ (~twice /\ tree.fn = "RunUntilSuccess") =>
                    /\ last.res = IF x = Success THEN Success ELSE Running
                    /\ last.res # Failure
            /\ (~twice /\ tree.fn = "RunUntilFailure") =>
                    /\ last.res = IF x = Failure THEN Failure ELSE Running
                    /\ last.res # Success

C12_Witness ==
    /\ tree = Invert(Invert(Task(1, <<Success, Failure>>)))
    /\ nticks = 2
    /\ last.res = Failure
    /\ calls = <<2>>

\* C13: a Ternary is an if-then-else (stated for predicates that return Success
\* or Failure and branches that do not return Invalid): whenTrue is ticked if
\* and only if the predicate returned Success, otherwise whenFalse is, so
\* exactly one of the two is ticked per Tick.
C13_TernaryIsIfThenElse ==
    (nticks > 0 /\ tree \in TernaryTrees) =>
        LET predicate == tree.children[1].children[1]
            whenTrue  == tree.children[1].children[2]
            whenFalse == tree.children[2]
        IN  (/\ LastResultOf(predicate) \in {Success, Failure}
             /\ LastResultOf(whenTrue) # Invalid
             /\ LastResultOf(whenFalse) # Invalid) =>
                /\ Ticked(whenTrue.id) <=> LastResultOf(predicate) = Success
                /\ Ticked(whenFalse.id) <=> LastResultOf(predicate) # Success
                /\ Ticked(whenTrue.id) # Ticked(whenFalse.id)

\* C18: each Tick of a Dynamic calls the constructor exactly once, ticks the
\* subtree that call returned exactly once and returns its result; a subtree
\* built in an earlier Tick is not ticked again.
C18_DynamicTicksWhatItBuilt ==
    (nticks > 0 /\ tree.kind = "dynamic") =>
        LET built == ScriptAt(tree.cons, nticks)
        IN  /\ calls[tree.id] = nticks
            /\ last.trace = <<tree.id, built.id>>
            /\ last.res = ScriptAt(built.script, last.before[built.id] + 1)
            /\ \A i \in DOMAIN calls :
                    calls[i] = last.before[i] + (IF i \in {tree.id, built.id} THEN 1 ELSE 0)

C18_Witness ==
    /\ tree = Dynamic(1, <<Task(2, <<Success>>), Task(3, <<Failure>>)>>)
    /\ nticks = 2
    /\ last.res = Failure
    /\ calls = <<2, 1, 1>>

-----------------------------------------------------------------------------
(* Properties of Parallel (SpecPar) *)

\* The children whose Tick returns r.
Returning(r) == {i \in 1..NumChildren : ChildResult(i) = r}

\* C4: Parallel with threshold t over n children returns Success if the
\* children that returned Success are at least t, otherwise Failure if those
\* that returned Failure are at least n - t, otherwise Running.
C4_ParallelAggregationRule ==
    ppc = "done" =>
        pres.res = IF Cardinality(Returning(Success)) >= pnode.threshold
                   THEN Success
                   ELSE IF Cardinality(Returning(Failure)) >= NumChildren - pnode.threshold
                        THEN Failure
                        ELSE Running

\* C5: in one Parallel.Tick no child is ticked twice, and when it returns every
\* child has been ticked once.
C5_EveryChildTickedOnce ==
    \A i \in 1..NumChildren :
        /\ cticks[i] <= 1
        /\ ppc = "done" => cticks[i] = 1

C5_Witness ==
    /\ ppc = "done"
    /\ NumChildren > maxNodeConcurrency
    /\ \A i \in 1..NumChildren : cticks[i] = 1

\* C6: when Parallel.Tick returns no child's Tick is executing, every worker
\* has exited, and the tallies it aggregated are the numbers of children that
\* returned Success and Failure.
C6_ReturnsAfterJoin ==
    ppc = "done" =>
        /\ \A i \in 1..NumChildren : cstate[i] = "tallied"
        /\ exited = maxNodeConcurrency
        /\ pres.successes = ToUint64(Cardinality(Returning(Success)))
        /\ pres.failures = ToUint64(Cardinality(Returning(Failure)))

C6_Witness ==
    /\ ppc = "done"
    /\ NumChildren = 3
    /\ pres.successes = ToUint64(2)
    /\ pres.failures = ToUint64(1)

\* C7: Parallel returns Failure only when the children that returned Failure
\* exceed n - t, so that the threshold can no longer be reached (stated for
\* children that return Running, Success or Failure).
C7_FailureOnlyWhenUnreachable ==
    (ppc = "done" /\ pres.res = Failure /\ Returning(Invalid) = {}) =>
        Cardinality(Returning(Failure)) > NumChildren - pnode.threshold

\* C16: with threshold 0 Parallel.Tick returns Success whatever its children
\* return, also with no children; with a threshold greater than the number of
\* children it never returns Success: it returns Failure or Running.
C16_ThresholdExtremes ==
    ppc = "done" =>
        /\ pnode.threshold = 0 => pres.res = Success
        /\ pnode.threshold > NumChildren => pres.res \in {Failure, Running}

C16_Witness ==
    /\ ppc = "done"
    /\ NumChildren = 2
    /\ pnode.threshold = 3
    /\ Returning(Success) = {1, 2}
    /\ pres.res # Success

\* The result as a function of the threshold t, the number n of children and
\* the numbers s and f of children returning Success and Failure.
OutcomeOfCounts(t, n, s, f) ==
    IF s >= t THEN Success
    ELSE IF t <= n /\ f >= n - t THEN Failure
    ELSE Running

\* C17: the result of Parallel.Tick does not depend on the order in which the
\* workers pick the children up, nor on the order of the child list: under
\* every interleaving it is one function of the threshold and of how many
\* children return Success and how many Failure.
C17_ResultIsOrderFree ==
    ppc = "done" =>
        pres.res = OutcomeOfCounts(pnode.threshold, NumChildren,
                                   Cardinality(Returning(Success)),
                                   Cardinality(Returning(Failure)))

C17_Witness ==
    /\ ppc = "done"
    /\ pnode.threshold = 2
    /\ NumChildren = 3
    /\ ChildResult(1) = Failure /\ ChildResult(2) = Running /\ ChildResult(3) = Success
    /\ cticks = <<1, 1, 1>>
    /\ pres.res = Failure

\* C21: at no point of a Parallel.Tick are more than maxNodeConcurrency of
\* its children being ticked at once, nor more than there are live workers;
\* a child is taken up only by a worker that is free.
C21_AtMostTenInFlight ==
    /\ Cardinality(InFlight) <= maxNodeConcurrency
    /\ Cardinality(InFlight) <= spawned - exited
    /\ spawned <= maxNodeConcurrency

C21_Witness ==
    /\ NumChildren > maxNodeConcurrency
    /\ Cardinality(InFlight) = maxNodeConcurrency
    /\ cstate[NumChildren] = "queued"

\* C22: Parallel.Tick cannot deadlock: until it has returned some step of it
\* or of a worker can be taken (filling the channel never blocks, a child's
\* tick returns, a worker at the drained channel exits), and when it returns
\* every one of the maxNodeConcurrency workers has exited.
C22_ParallelTickIsDeadlockFree ==
    /\ ppc # "done" => ENABLED NextPar
    /\ ppc = "done" => spawned = maxNodeConcurrency /\ exited = spawned

C22_Witness ==
    /\ ppc = "done"
    /\ NumChildren = 0
    /\ exited = maxNodeConcurrency

\* C23: for every threshold t with 0 <= t <= len(children) and all child
\* results, the concurrent Parallel.Tick returns what the sequential one does.
C23_ConcurrentAgreesWithSequential ==
    (ppc = "done" /\ 0 <= pnode.threshold /\ pnode.threshold <= NumChildren) =>
        pres.res = SequentialParallelTick(pnode)

C23_Witness ==
    /\ ppc = "done"
    /\ pnode.threshold = 1
    /\ NumChildren = 2
    /\ ChildResult(1) = Failure /\ ChildResult(2) = Success
    /\ pres.res = Success
    /\ SequentialParallelTick(pnode) = Success

-----------------------------------------------------------------------------
(* Properties of Run (SpecRun) *)

\* C8: Run returns the result of the first root tick that is not Running and
\* ticks the root no more after it; it never returns Running, and it returns
\* without such a tick only when the outer context is done, with Failure.
C8_RunReturnsFirstTerminal ==
    /\ \A i \in 1..(Len(hist) - 1) : hist[i] = Running
    /\ rpc = "done" =>
        /\ started = Len(hist)
        /\ ret # Running
        /\ IF hist[Len(hist)] # Running
           THEN ret = hist[Len(hist)]
           ELSE cancelled /\ ret = Failure

C8_Witness ==
    /\ rpc = "done"
    /\ hist = <<Running, Running, Failure>>
    /\ ret = Failure
    /\ ~cancelled

\* C9: with cadence 0 and the outer context alive, Run over a root that is
\* Running N times and then Success goes on until it returns Success after
\* N + 1 ticks: it has returned just that, or it can take a step.
C9_CadenceZeroRunsToSuccess ==
    (rroot.kind = "maxtick" /\ tickRate = 0 /\ ~cancelled) =>
        IF rpc = "done"
        THEN ret = Success /\ Len(hist) = rroot.max + 1
        ELSE ENABLED RunStep

\* C10: a root tick in flight ends only by returning, and a select that finds
\* the outer context done, or is woken by its cancellation, starts no further
\* tick: Run returns Failure.
C10_CancelEndsRunAtWait ==
    [][/\ (rpc = "tick" /\ rpc' # "tick") => Len(hist') = Len(hist) + 1
       /\ (rpc = "select" /\ cancelled /\ rpc' # "select") =>
            (rpc' = "done" /\ ret' = Failure)
       /\ (rpc = "blocked" /\ cancelled /\ ~fired /\ rpc' # "blocked") =>
            (rpc' = "done" /\ ret' = Failure)]_vars

\* C14: over a tree whose leaf functions and modifiers return only Running,
\* Success or Failure, every Tick of a node of every kind returns Running,
\* Success or Failure, never Invalid, a Conditional only Success or Failure,
\* and Run never returns Invalid.
C14_NoInvalidFromValidLeaves ==
    rroot \in ValidRoots =>
        /\ \A i \in 1..Len(hist) :
                /\ hist[i] \in {Running, Success, Failure}
                /\ rroot.kind = "conditional" => hist[i] \in {Success, Failure}
        /\ rpc = "done" => ret \in {Running, Success, Failure}

C14_Witness ==
    /\ rroot = Dynamic(3, <<Task(1, <<Running>>), Conditional(2, <<FALSE>>)>>)
    /\ rpc = "done"
    /\ hist = <<Running, Failure>>
    /\ ret = Failure
    /\ ~cancelled

\* C19: in every iteration the root is ticked under a context derived from the
\* outer one and bounded by the per-tick timeout, and that context is released
\* once the tick has returned, before Run returns or waits for the cadence;
\* in the Run configured by options and in the Run taking its rates as arguments.
C19_TickContextBoundedAndReleased ==
    /\ rpc = "tick" =>
            /\ tickCtx.parent = "ctx"
            /\ tickCtx.timeout = tickTimeout
            /\ ~tickCtx.released
    /\ rpc \in {"select", "blocked", "done"} => tickCtx.released

\* C25: Run ticks the root at least once, also when the outer context is done
\* before the first tick, and a root tick's Success or Failure is what Run
\* returns, whether or not the outer context was cancelled before or during
\* that tick.
C25_TicksOnceAndTerminalResultWins ==
    /\ (rpc = "loop" /\ started = 0) => ENABLED RunTickStart
    /\ rpc = "done" => started >= 1 /\ Len(hist) = started
    /\ (rpc = "done" /\ Len(hist) >= 1 /\ hist[Len(hist)] \in {Success, Failure}) =>
            ret = hist[Len(hist)]

C25_Witness ==
    /\ rpc = "done"
    /\ cancelled
    /\ started = 1
    /\ hist = <<Success>>
    /\ ret = Success

\* C20: Run is never stuck in the cadence wait: a root tick that returned
\* Running is followed, after the wait, by another tick or by Run's return.
C20_CadenceWaitEnds ==
    (rpc \in {"select", "blocked"}) ~> (rpc \in {"loop", "tick", "done"})

-----------------------------------------------------------------------------
(* Properties of Run over a Parallel root (SpecRunPar) *)

\* No node instance occurs twice among the children.
DistinctInstances ==
    \A i, j \in 1..NumChildren : i # j => pnode.children[i].id # pnode.children[j].id

\* At most one root tick is in flight, no node instance has two Ticks in
\* flight, and outside a root tick no Tick and no parallel.Tick is in flight.
NoOverlappingTicks ==
    /\ started - Len(hist) \in {0, 1}
    /\ \A x \in DOMAIN inflight : inflight[x] <= 1
    /\ rpc # "tick" =>
            /\ \A x \in DOMAIN inflight : inflight[x] = 0
            /\ ppc \in {"idle", "done"}

\* C11 as stated: during Run no node instance has two Ticks in flight at
\* once, however the tree is assembled, and root tick k + 1 starts only after
\* root tick k has returned.
C11_NoConcurrentTicksOfAnInstance ==
    /\ \A x \in DOMAIN inflight : inflight[x] <= 1
    /\ started - Len(hist) \in {0, 1}

\* C11, amended: the same, and no Tick in flight between root ticks, for trees
\* in which no node instance occurs twice.
C11_NoConcurrentTicksInATree == DistinctInstances => NoOverlappingTicks

C11_Witness ==
    /\ DistinctInstances
    /\ started = 2
    /\ rpc = "tick"
    /\ inflight = <<1, 1>>

=============================================================================
